---- MODULE Spec2Model ----
(***************************************************************************)
(* Model of the capture loop of data_capture/management/commands/          *)
(* capture_demand_data.py (Command.handle): one capture cycle drives the   *)
(* page renderer, parses the time-block text, saves and rotates the        *)
(* screenshot, pushes the status to the downstream API and writes the      *)
(* record to the database with bounded retry.                              *)
(*                                                                         *)
(* Python strings are sequences of one-character strings; a date is a      *)
(* record [y, m, d]; an exception is the name of its class.                *)
(***************************************************************************)
EXTENDS Integers, Sequences, FiniteSets, TLC

(***************************************************************************)
(* Bounds of the model                                                     *)
(***************************************************************************)
MaxCycles == 2

(***************************************************************************)
(* Configuration (handle, "--- Configuration ---")                         *)
(***************************************************************************)
WAIT_TIME_SECONDS == 300
KEEP_DAYS == 2
max_attempts == 4

(***************************************************************************)
(* Strings                                                                 *)
(***************************************************************************)
None_text == <<"None">>
None_date == [y |-> 0, m |-> 0, d |-> 0]

Digits == {"0", "1", "2", "3", "4", "5", "6", "7", "8", "9"}
Upper == {"A", "B", "C", "D", "E", "F", "G", "H", "I", "J", "K", "L", "M",
          "N", "O", "P", "Q", "R", "S", "T", "U", "V", "W", "X", "Y", "Z"}
Whitespace == {" ", "\n", "\t"}

DigitVal(c) ==
  CASE c = "0" -> 0 [] c = "1" -> 1 [] c = "2" -> 2 [] c = "3" -> 3
    [] c = "4" -> 4 [] c = "5" -> 5 [] c = "6" -> 6 [] c = "7" -> 7
    [] c = "8" -> 8 [] c = "9" -> 9

DigitChar(n) ==
  CASE n = 0 -> "0" [] n = 1 -> "1" [] n = 2 -> "2" [] n = 3 -> "3"
    [] n = 4 -> "4" [] n = 5 -> "5" [] n = 6 -> "6" [] n = 7 -> "7"
    [] n = 8 -> "8" [] n = 9 -> "9"

\* str.lower() on the characters that occur in file names
LowerChar(c) ==
  CASE c = "P" -> "p" [] c = "N" -> "n" [] c = "G" -> "g" [] OTHER -> c

Lower(s) == [i \in 1..Len(s) |-> LowerChar(s[i])]

StartsWith(s, p) == Len(s) >= Len(p) /\ SubSeq(s, 1, Len(p)) = p

EndsWith(s, p) == Len(s) >= Len(p) /\ SubSeq(s, Len(s) - Len(p) + 1, Len(s)) = p

\* str.replace(old, new) with new = "": remove every occurrence, left to right
RECURSIVE Remove(_, _)
Remove(s, old) ==
  IF s = <<>> THEN <<>>
  ELSE IF StartsWith(s, old) THEN Remove(SubSeq(s, Len(old) + 1, Len(s)), old)
  ELSE <<Head(s)>> \o Remove(Tail(s), old)

RECURSIVE LStrip(_)
LStrip(s) ==
  IF s # <<>> /\ Head(s) \in Whitespace THEN LStrip(Tail(s)) ELSE s

RECURSIVE RStrip(_)
RStrip(s) ==
  IF s # <<>> /\ s[Len(s)] \in Whitespace THEN RStrip(SubSeq(s, 1, Len(s) - 1)) ELSE s

Strip(s) == RStrip(LStrip(s))

\* " ".join(s.split()): drop leading and trailing whitespace and collapse
\* every inner run of whitespace to one space
RECURSIVE Collapse(_)
Collapse(s) ==
  IF s = <<>> THEN <<>>
  ELSE IF Head(s) \in Whitespace
       THEN IF Len(s) = 1 \/ s[2] \in Whitespace
            THEN Collapse(Tail(s))
            ELSE <<" ">> \o Collapse(Tail(s))
       ELSE <<Head(s)>> \o Collapse(Tail(s))

JoinSplit(s) == Collapse(LStrip(s))

(***************************************************************************)
(* The pattern of the time-block text and re.search                        *)
(***************************************************************************)
LIT_TIME_BLOCK == <<"T", "I", "M", "E", " ", "B", "L", "O", "C", "K", " ">>
LIT_DATED == <<" ", "D", "A", "T", "E", "D", " ">>
RE_TIME == <<"\\d", "\\d", ":", "\\d", "\\d", " ", "-", " ", "\\d", "\\d", ":", "\\d", "\\d">>
RE_DATE == <<"\\d", "\\d", " ", "[A-Z]", "[A-Z]", "[A-Z]", " ", "\\d", "\\d", "\\d", "\\d">>

pattern == LIT_TIME_BLOCK \o RE_TIME \o LIT_DATED \o RE_DATE

ElemMatches(p, c) ==
  IF p = "\\d" THEN c \in Digits
  ELSE IF p = "[A-Z]" THEN c \in Upper
  ELSE c = p

MatchAt(s, i) ==
  /\ i + Len(pattern) - 1 <= Len(s)
  /\ \A k \in 1..Len(pattern) : ElemMatches(pattern[k], s[i + k - 1])

\* re.search: the leftmost position where the pattern matches, 0 for no match
Search(s) ==
  IF \E i \in 1..Len(s) : MatchAt(s, i)
  THEN CHOOSE i \in 1..Len(s) : MatchAt(s, i) /\ \A j \in 1..(i - 1) : ~MatchAt(s, j)
  ELSE 0

Group1(s, i) == SubSeq(s, i + Len(LIT_TIME_BLOCK), i + Len(LIT_TIME_BLOCK) + Len(RE_TIME) - 1)

Group2(s, i) ==
  SubSeq(s, i + Len(LIT_TIME_BLOCK) + Len(RE_TIME) + Len(LIT_DATED), i + Len(pattern) - 1)

(***************************************************************************)
(* Dates: datetime.strptime(date_str, '%d %b %Y'), strftime('%Y-%m-%d'),   *)
(* timedelta(days = d)                                                     *)
(***************************************************************************)
MonthNames ==
  << <<"J", "A", "N">>, <<"F", "E", "B">>, <<"M", "A", "R">>, <<"A", "P", "R">>,
     <<"M", "A", "Y">>, <<"J", "U", "N">>, <<"J", "U", "L">>, <<"A", "U", "G">>,
     <<"S", "E", "P">>, <<"O", "C", "T">>, <<"N", "O", "V">>, <<"D", "E", "C">> >>

IsLeap(y) == (y % 4 = 0 /\ y % 100 # 0) \/ y % 400 = 0

DaysInMonth(y, m) ==
  IF m = 2 THEN (IF IsLeap(y) THEN 29 ELSE 28)
  ELSE IF m \in {4, 6, 9, 11} THEN 30 ELSE 31

\* date_str is group 2 of the match: two digits, space, three capitals,
\* space, four digits.  The result is None_date where strptime raises
\* ValueError.
Strptime(date_str) ==
  LET dd == 10 * DigitVal(date_str[1]) + DigitVal(date_str[2])
      mon == SubSeq(date_str, 4, 6)
      yy == 1000 * DigitVal(date_str[8]) + 100 * DigitVal(date_str[9])
            + 10 * DigitVal(date_str[10]) + DigitVal(date_str[11])
  IN IF \E m \in 1..12 : MonthNames[m] = mon
     THEN LET mm == CHOOSE m \in 1..12 : MonthNames[m] = mon
          IN IF yy >= 1 /\ dd >= 1 /\ dd <= DaysInMonth(yy, mm)
             THEN [y |-> yy, m |-> mm, d |-> dd]
             ELSE None_date
     ELSE None_date

TwoDigits(n) == <<DigitChar(n \div 10), DigitChar(n % 10)>>

FourDigits(n) ==
  <<DigitChar(n \div 1000), DigitChar((n \div 100) % 10),
    DigitChar((n \div 10) % 10), DigitChar(n % 10)>>

\* strftime('%Y-%m-%d')
Strftime(dt) == FourDigits(dt.y) \o <<"-">> \o TwoDigits(dt.m) \o <<"-">> \o TwoDigits(dt.d)

PrevDay(dt) ==
  IF dt.d > 1 THEN [dt EXCEPT !.d = dt.d - 1]
  ELSE IF dt.m > 1 THEN [y |-> dt.y, m |-> dt.m - 1, d |-> DaysInMonth(dt.y, dt.m - 1)]
  ELSE [y |-> dt.y - 1, m |-> 12, d |-> 31]

NextDay(dt) ==
  IF dt.d < DaysInMonth(dt.y, dt.m) THEN [dt EXCEPT !.d = dt.d + 1]
  ELSE IF dt.m < 12 THEN [y |-> dt.y, m |-> dt.m + 1, d |-> 1]
  ELSE [y |-> dt.y + 1, m |-> 1, d |-> 1]

\* dt - timedelta(days = n)
RECURSIVE MinusDays(_, _)
MinusDays(dt, n) == IF n = 0 THEN dt ELSE MinusDays(PrevDay(dt), n - 1)

(***************************************************************************)
(* Exceptions.  ExcParent is the direct base class of the exception        *)
(* classes the command imports or can meet; an except clause is a set of   *)
(* class names, a try statement a sequence of except clauses.              *)
(***************************************************************************)
ExcParent(c) ==
  CASE c = "PlaywrightTimeoutError" -> "PlaywrightError"
    [] c = "PlaywrightError" -> "Exception"
    [] c = "ValueError" -> "Exception"
    [] c = "OSError" -> "Exception"
    [] c = "RequestException" -> "OSError"
    [] c = "Timeout" -> "RequestException"
    [] c = "ConnectionError" -> "RequestException"
    [] c = "DatabaseError" -> "Exception"
    [] c = "OperationalError" -> "DatabaseError"
    [] c = "IntegrityError" -> "DatabaseError"
    [] c = "AttributeError" -> "Exception"
    [] c = "TypeError" -> "Exception"
    [] c = "Exception" -> "BaseException"
    [] c = "KeyboardInterrupt" -> "BaseException"
    [] OTHER -> "BaseException"

RECURSIVE IsInstance(_, _)
IsInstance(e, c) ==
  IF e = c THEN TRUE
  ELSE IF e = "BaseException" THEN FALSE
  ELSE IsInstance(ExcParent(e), c)

\* The index of the first except clause that catches e, 0 when none does
Handler(clauses, e) ==
  IF \E i \in 1..Len(clauses) : \E c \in clauses[i] : IsInstance(e, c)
  THEN CHOOSE i \in 1..Len(clauses) :
         /\ \E c \in clauses[i] : IsInstance(e, c)
         /\ \A j \in 1..(i - 1) : \A c \in clauses[j] : ~IsInstance(e, c)
  ELSE 0

Block1Handlers_AllTimeout == << {"PlaywrightTimeoutError", "Exception"} >>

\* try of Block 1: except PlaywrightTimeoutError / except Exception
Block1Handlers == << {"PlaywrightTimeoutError"}, {"Exception"} >>

ScreenshotHandlers_AllTimeout == << {"PlaywrightTimeoutError", "Exception"} >>

\* try of the screenshot block: except PlaywrightTimeoutError / except Exception
ScreenshotHandlers == << {"PlaywrightTimeoutError"}, {"Exception"} >>

RemoveHandlers_None == << >>

\* try around os.remove: except Exception
RemoveHandlers == << {"Exception"} >>

PublishHandlers_OnlyTimeout == << {"Timeout"} >>

\* try of Block 2: except requests.exceptions.RequestException
PublishHandlers == << {"RequestException"} >>

\* try of one save attempt: except (OperationalError, DatabaseError) / except Exception
SaveHandlers == << {"OperationalError", "DatabaseError"}, {"Exception"} >>

LoopHandlers_None == << >>

\* try around the loop: except KeyboardInterrupt
LoopHandlers == << {"KeyboardInterrupt"} >>

(***************************************************************************)
(* Inputs: what the collaborators can return or raise                      *)
(***************************************************************************)
RendererResults == {"ok", "PlaywrightTimeoutError", "PlaywrightError"}

CurrentTexts == { <<"1", "2", ",", "3", "4", "5", " ", "M", "W">> }

YesterdayTexts == { <<"1", "1", ",", "0", "0", "0", " ", "M", "W">> }

\* The text of scenario A, with the line breaks and runs of blanks of a page
TextA ==
  <<"L", "I", "V", "E", "\n", "T", "I", "M", "E", " ", " ", "B", "L", "O", "C", "K", " ",
    "1", "0", ":", "1", "5", " ", "-", " ", "1", "0", ":", "3", "0", "\t",
    "D", "A", "T", "E", "D", " ", "0", "5", " ", "J", "A", "N", " ", "2", "0", "2", "4", " ">>

TextNoDated ==
  <<"T", "I", "M", "E", " ", "B", "L", "O", "C", "K", " ",
    "1", "0", ":", "1", "5", " ", "-", " ", "1", "0", ":", "3", "0", " ",
    "0", "5", " ", "J", "A", "N", " ", "2", "0", "2", "4">>

TextBadDate ==
  <<"T", "I", "M", "E", " ", "B", "L", "O", "C", "K", " ",
    "1", "0", ":", "1", "5", " ", "-", " ", "1", "0", ":", "3", "0", " ",
    "D", "A", "T", "E", "D", " ", "3", "1", " ", "F", "E", "B", " ", "2", "0", "2", "4">>

FullTexts == {TextA, TextNoDated, TextBadDate}

\* requests.get: an exception, or a response with a status code
PublishResults ==
  { [raised |-> "none", status_code |-> 200],
    [raised |-> "none", status_code |-> 500],
    [raised |-> "Timeout", status_code |-> 0],
    [raised |-> "ConnectionError", status_code |-> 0] }

\* DemandData.objects.create inside transaction.atomic()
CreateResults == {"ok", "OperationalError", "IntegrityError", "ValueError"}

(***************************************************************************)
(* Screenshot files                                                        *)
(***************************************************************************)
SCREENSHOT_PREFIX == <<"v", "i", "d", "y", "u", "t", "p", "r", "a", "v", "a", "h", "_">>
PNG == <<".", "p", "n", "g">>

\* f"vidyutpravah_{d}.png" for a formatted date d
ScreenshotName(d) == SCREENSHOT_PREFIX \o d \o PNG

\* the filter of the rotation loop: startswith("vidyutpravah_") and lower().endswith(".png")
IsScreenshot_Any(fname) == Len(fname) > 0

IsScreenshot(fname) == StartsWith(fname, SCREENSHOT_PREFIX) /\ EndsWith(Lower(fname), PNG)

keep_dates_OneMore(run_date) == { Strftime(MinusDays(run_date, d)) : d \in 0..KEEP_DAYS }

keep_dates(run_date) == { Strftime(MinusDays(run_date, d)) : d \in 0..(KEEP_DAYS - 1) }

allowed_filenames(run_date) == { ScreenshotName(d) : d \in keep_dates(run_date) }

StartDate == [y |-> 2024, m |-> 2, d |-> 29]

InitialFiles ==
  { ScreenshotName(Strftime(MinusDays(StartDate, 1))),
    ScreenshotName(Strftime(MinusDays(StartDate, 2))),
    <<"v", "i", "d", "y", "u", "t", "p", "r", "a", "v", "a", "h", "_", "o", "l", "d", ".", "P", "N", "G">>,
    <<"n", "o", "t", "e", "s", ".", "t", "x", "t">> }

\* A directory that holds one stale screenshot
StaleFiles == { fname \in InitialFiles : IsScreenshot(fname) /\ ~EndsWith(fname, PNG) }

(***************************************************************************)
(* State                                                                   *)
(***************************************************************************)
VARIABLES
  pc,                \* position of the command in handle
  cycle,             \* number of the running cycle, counted from 1
  run_date,          \* run_start_time.date()
  api_status,
  current_text,
  yesterday_text,
  full_text,
  parsed_time_block,
  parsed_date_obj,
  browser,           \* "none", "open", "closed" (browser.close()) or "killed" (playwright stopped)
  files,             \* os.listdir(SCREENSHOT_DIR)
  params,            \* query parameters of the request of this cycle
  attempt,
  saved,
  conn,              \* django.db.connection: "closed" or "open"
  store,             \* the rows of DemandData, oldest first
  \* what has happened in the running cycle
  releases,          \* number of times the browser of this cycle was released
  shotResult,        \* result of page.screenshot, "none" before it
  pruneResult,       \* "none", "ok", "partial" (some os.remove failed) or the exception of os.listdir
  removeFailed,      \* the files whose os.remove raised in the pass of this cycle
  response,          \* what latest_data_json answered, NoResponse before it is asked
  closeResult,       \* result of browser.close(), "none" before it
  fault,             \* the exception that left the "with" block of Block 1, and where it was raised
  requests,          \* results of the calls of requests.get, in order
  outcomes,          \* results of the calls of DemandData.objects.create, in order
  sleeps,            \* lengths of the calls of time.sleep(backoff), in order
  savedReports,      \* number of "Data saved to database successfully" lines
  writerRuns,        \* number of times Block 3 was entered
  slept,             \* seconds slept in the countdown that ended the previous cycle
  interrupted,       \* a KeyboardInterrupt has been raised
  storeAtStart       \* store when the cycle started

vars ==
  << pc, cycle, run_date, api_status, current_text, yesterday_text, full_text,
     parsed_time_block, parsed_date_obj, browser, files, params, attempt, saved,
     conn, store, releases, shotResult, pruneResult, removeFailed,
     response, closeResult, fault, requests,
     outcomes, sleeps, savedReports, writerRuns, slept, interrupted, storeAtStart >>

captureVars == << current_text, yesterday_text, full_text, parsed_time_block, parsed_date_obj >>
writerVars == << attempt, saved, conn, store, outcomes, sleeps, savedReports, writerRuns >>
shotVars == << files, shotResult, pruneResult, removeFailed >>
loopVars == << cycle, run_date, slept, interrupted, storeAtStart, response >>

NoParams == [k \in {} |-> <<>>]

NoFault == [at |-> "none", exc |-> "none"]

NoResponse == [status |-> 0]

Block1Pcs ==
  {"launch", "goto", "wait_visible", "read_current", "read_yesterday", "read_full",
   "parse", "screenshot", "prune", "close"}

\* The state when handle() is entered, for a screenshot directory holding dir
\* and a table holding rows
InitWith(dir, rows) ==
  /\ pc = "start"
  /\ cycle = 0
  /\ run_date = StartDate
  /\ api_status = "UnknownError"
  /\ current_text = None_text
  /\ yesterday_text = None_text
  /\ full_text = None_text
  /\ parsed_time_block = None_text
  /\ parsed_date_obj = None_date
  /\ browser = "none"
  /\ files = dir
  /\ params = NoParams
  /\ attempt = 0
  /\ saved = FALSE
  /\ conn = "closed"
  /\ store = rows
  /\ releases = 0
  /\ shotResult = "none"
  /\ pruneResult = "none"
  /\ removeFailed = {}
  /\ closeResult = "none"
  /\ fault = NoFault
  /\ requests = <<>>
  /\ outcomes = <<>>
  /\ sleeps = <<>>
  /\ savedReports = 0
  /\ writerRuns = 0
  /\ slept = 0
  /\ interrupted = FALSE
  /\ storeAtStart = rows
  /\ response = NoResponse

Init == InitWith(InitialFiles, <<>>)

(***************************************************************************)
(* How an exception leaves the code                                        *)
(***************************************************************************)
\* An exception that no try inside the loop catches reaches the try around
\* the loop: KeyboardInterrupt ends the command, anything else kills it.
LoopExit(e) == IF Handler(LoopHandlers, e) = 1 THEN "stopped" ELSE "crashed"

WithExit_Leak(b) == b

\* Leaving "with sync_playwright() as p" stops Playwright, which ends a
\* browser that is still open.
WithExit(b) == IF b = "open" THEN "killed" ELSE b

\* The exception e leaves the "with" block of Block 1 while the browser is
\* in state b, and reaches the except clauses of Block 1.
Block1Raise(e, b) ==
  LET h == Handler(Block1Handlers, e)
  IN /\ fault' = [at |-> pc, exc |-> e]
     /\ browser' = WithExit(b)
     /\ releases' = IF b = "open" /\ WithExit(b) # "open" THEN releases + 1 ELSE releases
     /\ api_status' = IF h = 1 THEN "TimeoutError"
                      ELSE IF h = 2 THEN "ScrapingFailed"
                      ELSE api_status
     /\ pc' = IF h # 0 THEN "publish" ELSE LoopExit(e)

(***************************************************************************)
(* Block 1: data extraction and processing                                 *)
(***************************************************************************)
\* while True: start_time ... api_status = "UnknownError"
StartCycle ==
  /\ pc = "start"
  /\ cycle < MaxCycles
  /\ cycle' = cycle + 1
  /\ \E now \in {run_date, NextDay(run_date)} : run_date' = now
  /\ current_text' = None_text
  /\ yesterday_text' = None_text
  /\ full_text' = None_text
  /\ parsed_time_block' = None_text
  /\ parsed_date_obj' = None_date
  /\ api_status' = "UnknownError"
  /\ browser' = "none"
  /\ params' = NoParams
  /\ releases' = 0
  /\ shotResult' = "none"
  /\ pruneResult' = "none"
  /\ removeFailed' = {}
  /\ closeResult' = "none"
  /\ fault' = NoFault
  /\ requests' = <<>>
  /\ outcomes' = <<>>
  /\ sleeps' = <<>>
  /\ savedReports' = 0
  /\ writerRuns' = 0
  /\ storeAtStart' = store
  /\ pc' = "launch"
  /\ UNCHANGED << files, attempt, saved, conn, store, slept, interrupted, response >>

\* with sync_playwright() as p: p.chromium.launch, browser.new_page, page.set_viewport_size
Launch ==
  /\ pc = "launch"
  /\ \E r \in RendererResults, launched \in BOOLEAN :
       IF r = "ok"
       THEN /\ launched
            /\ browser' = "open"
            /\ pc' = "goto"
            /\ UNCHANGED << api_status, releases, fault >>
       ELSE Block1Raise(r, IF launched THEN "open" ELSE "none")
  /\ UNCHANGED << captureVars, shotVars, writerVars, loopVars, params, closeResult, requests >>

\* A call of the page that returns nothing: page.goto, page.wait_for_selector
PageCall(here, next) ==
  /\ pc = here
  /\ \E r \in RendererResults :
       IF r = "ok"
       THEN /\ pc' = next
            /\ UNCHANGED << api_status, browser, releases, fault >>
       ELSE Block1Raise(r, browser)
  /\ UNCHANGED << captureVars, shotVars, writerVars, loopVars, params, closeResult, requests >>

Goto == PageCall("goto", "wait_visible")

WaitVisible == PageCall("wait_visible", "read_current")

ReadCurrent ==
  /\ pc = "read_current"
  /\ \E r \in RendererResults :
       IF r = "ok"
       THEN /\ \E t \in CurrentTexts : current_text' = t
            /\ pc' = "read_yesterday"
            /\ UNCHANGED << api_status, browser, releases, fault >>
       ELSE /\ Block1Raise(r, browser)
            /\ UNCHANGED current_text
  /\ UNCHANGED << yesterday_text, full_text, parsed_time_block, parsed_date_obj >>
  /\ UNCHANGED << shotVars, writerVars, loopVars, params, closeResult, requests >>

ReadYesterday ==
  /\ pc = "read_yesterday"
  /\ \E r \in RendererResults :
       IF r = "ok"
       THEN /\ \E t \in YesterdayTexts : yesterday_text' = t
            /\ pc' = "read_full"
            /\ UNCHANGED << api_status, browser, releases, fault >>
       ELSE /\ Block1Raise(r, browser)
            /\ UNCHANGED yesterday_text
  /\ UNCHANGED << current_text, full_text, parsed_time_block, parsed_date_obj >>
  /\ UNCHANGED << shotVars, writerVars, loopVars, params, closeResult, requests >>

ReadFull ==
  /\ pc = "read_full"
  /\ \E r \in RendererResults :
       IF r = "ok"
       THEN /\ \E t \in FullTexts : full_text' = t
            /\ pc' = "parse"
            /\ UNCHANGED << api_status, browser, releases, fault >>
       ELSE /\ Block1Raise(r, browser)
            /\ UNCHANGED full_text
  /\ UNCHANGED << current_text, yesterday_text, parsed_time_block, parsed_date_obj >>
  /\ UNCHANGED << shotVars, writerVars, loopVars, params, closeResult, requests >>

\* try: full_text = " ".join(full_text.split()) ... except Exception:
\* api_status = "ParsingFailed"; then "if api_status == 'DataCaptured'"
Parse ==
  /\ pc = "parse"
  /\ \E text \in {JoinSplit(full_text)} :
     \E at \in {Search(text)} :
     \E dt \in {IF at = 0 THEN None_date ELSE Strptime(Group2(text, at))} :
        /\ full_text' = text
        /\ parsed_time_block' = IF at = 0 THEN parsed_time_block ELSE Group1(text, at)
        /\ parsed_date_obj' = dt
        /\ api_status' = IF at # 0 /\ dt # None_date THEN "DataCaptured" ELSE "ParsingFailed"
        /\ pc' = IF at # 0 /\ dt # None_date THEN "screenshot" ELSE "close"
  /\ UNCHANGED << current_text, yesterday_text, browser, releases, fault >>
  /\ UNCHANGED << shotVars, writerVars, loopVars, params, closeResult, requests >>

\* An exception inside the try of the screenshot block: its except clauses
\* come first, the ones of Block 1 after them.
ScreenshotRaise(e) ==
  LET h == Handler(ScreenshotHandlers, e)
  IN IF h = 0
     THEN Block1Raise(e, browser)
     ELSE /\ api_status' = IF h = 1 THEN "TimeoutError" ELSE api_status
          /\ pc' = "close"
          /\ UNCHANGED << browser, releases, fault >>

\* page.screenshot(path = screenshot_path)
Screenshot ==
  /\ pc = "screenshot"
  /\ \E r \in RendererResults :
       /\ shotResult' = r
       /\ IF r = "ok"
          THEN /\ files' = files \cup {ScreenshotName(Strftime(run_date))}
               /\ pc' = "prune"
               /\ UNCHANGED << api_status, browser, releases, fault >>
          ELSE /\ ScreenshotRaise(r)
               /\ UNCHANGED files
  /\ UNCHANGED << captureVars, writerVars, loopVars, params, pruneResult, removeFailed, closeResult, requests >>

\* The files the rotation loop hands to os.remove: vidyutpravah_*.png files
\* that are not in allowed_filenames
stale_files(listing, d) ==
  { fname \in listing : IsScreenshot(fname) /\ fname \notin allowed_filenames(d) }

\* keep_dates, allowed_filenames, for fname in os.listdir(SCREENSHOT_DIR): ... os.remove(fpath).
\* An os.remove that raises leaves its file; when its except clause
\* catches the exception the loop goes on, otherwise the loop ends there
\* with some of the other files removed.
Prune ==
  /\ pc = "prune"
  /\ \E listed \in {"ok", "OSError"} :
       IF listed = "ok"
       THEN LET stale == stale_files(files, run_date)
            IN \E failed \in SUBSET stale :
                 IF failed = {} \/ Handler(RemoveHandlers, "OSError") = 1
                 THEN /\ files' = files \ (stale \ failed)
                      /\ removeFailed' = failed
                      /\ pruneResult' = IF failed = {} THEN "ok" ELSE "partial"
                      /\ pc' = "close"
                      /\ UNCHANGED << api_status, browser, releases, fault >>
                 ELSE \E first \in failed, before \in SUBSET (stale \ failed) :
                        /\ files' = files \ before
                        /\ removeFailed' = {first}
                        /\ pruneResult' = "OSError"
                        /\ ScreenshotRaise("OSError")
       ELSE /\ ScreenshotRaise(listed)
            /\ pruneResult' = listed
            /\ UNCHANGED << files, removeFailed >>
  /\ UNCHANGED << captureVars, writerVars, loopVars, params, shotResult, closeResult, requests >>

\* browser.close(), then the end of the "with" block
Close ==
  /\ pc = "close"
  /\ \E r \in RendererResults :
       /\ closeResult' = r
       /\ IF r = "ok"
          THEN /\ browser' = WithExit("closed")
               /\ releases' = releases + 1
               /\ pc' = "publish"
               /\ UNCHANGED << api_status, fault >>
          ELSE Block1Raise(r, browser)
  /\ UNCHANGED << captureVars, shotVars, writerVars, loopVars, params, requests >>

(***************************************************************************)
(* Block 2: push status and data to the API                                *)
(***************************************************************************)
CleanDemand_KeepUnit(text) == Strip(Remove(text, <<",">>))

\* .replace(",", "").replace(" MW", "").strip(): three calls, each on the
\* value the one before returned
CleanDemand(text) ==
  LET commaFree == { Remove(text, <<",">>) }
      unitFree == { Remove(s, <<" ", "M", "W">>) : s \in commaFree }
  IN CHOOSE s \in { Strip(t) : t \in unitFree } : TRUE

BuildParams_ByFields ==
  IF parsed_date_obj # None_date
  THEN [status |-> api_status,
        date |-> Strftime(parsed_date_obj),
        time |-> Remove(parsed_time_block, <<" ">>),
        current |-> CleanDemand(current_text),
        yesterday |-> CleanDemand(yesterday_text)]
  ELSE [status |-> api_status]

\* params = {'status': api_status}, plus the four fields when DataCaptured
BuildParams ==
  IF api_status = "DataCaptured"
  THEN [status |-> api_status,
        date |-> Strftime(parsed_date_obj),
        time |-> Remove(parsed_time_block, <<" ">>),
        current |-> CleanDemand(current_text),
        yesterday |-> CleanDemand(yesterday_text)]
  ELSE [status |-> api_status]

\* A method call on None raises AttributeError before the request is made
BuildRaises ==
  /\ api_status = "DataCaptured"
  /\ \/ current_text = None_text
     \/ yesterday_text = None_text
     \/ parsed_date_obj = None_date
     \/ parsed_time_block = None_text

AfterRequest_Retry(r) ==
  IF r.raised = "none" /\ r.status_code = 200 THEN "db_guard" ELSE "publish"

AfterRequest_SkipSave(r) ==
  IF r.raised = "none" /\ r.status_code = 200 THEN "db_guard" ELSE "countdown"

\* Where the command goes after requests.get returned or raised
AfterRequest(r) ==
  IF r.raised = "none" \/ Handler(PublishHandlers, r.raised) = 1
  THEN "db_guard"
  ELSE LoopExit(r.raised)

Publish ==
  /\ pc = "publish"
  /\ IF BuildRaises
     THEN /\ pc' = IF Handler(PublishHandlers, "AttributeError") = 1
                   THEN "db_guard" ELSE LoopExit("AttributeError")
          /\ UNCHANGED << params, requests >>
     ELSE /\ params' = BuildParams
          /\ \E r \in PublishResults :
               /\ requests' = Append(requests, r)
               /\ pc' = AfterRequest(r)
  /\ UNCHANGED << captureVars, shotVars, writerVars, loopVars >>
  /\ UNCHANGED << api_status, browser, releases, closeResult, fault >>

(***************************************************************************)
(* Block 3: data saving to the database                                    *)
(***************************************************************************)
SaveWanted_Legacy == current_text # None_text /\ yesterday_text # None_text

\* if api_status == "DataCaptured":
SaveWanted == api_status = "DataCaptured"

\* saved = False; max_attempts = 4; attempt = 0; cd, yd, tb, pd
SaveGuard ==
  /\ pc = "db_guard"
  /\ IF SaveWanted
     THEN /\ saved' = FALSE
          /\ attempt' = 0
          /\ writerRuns' = writerRuns + 1
          /\ pc' = "db_loop"
     ELSE /\ pc' = "countdown"
          /\ UNCHANGED << saved, attempt, writerRuns >>
  /\ UNCHANGED << captureVars, shotVars, loopVars, params, requests >>
  /\ UNCHANGED << api_status, browser, releases, closeResult, fault >>
  /\ UNCHANGED << conn, store, outcomes, sleeps, savedReports >>

SaveLoopCond_IgnoresSaved == attempt < max_attempts

\* while attempt < max_attempts and not saved
SaveLoopCond == attempt < max_attempts /\ ~saved

\* The row of cd, yd, tb, pd; captured_at defaults to the time of the create
NewRow ==
  [current_demand |-> current_text,
   yesterday_demand |-> yesterday_text,
   time_block |-> parsed_time_block,
   date |-> parsed_date_obj,
   captured_at |-> cycle]

DemandData_create_Replace(rows) == << NewRow >>

\* with transaction.atomic(): DemandData.objects.create(...), committed
DemandData_create(rows) == Append(rows, NewRow)

connection_close_Keep(c) == c

\* connection.close() inside try / except Exception: pass
connection_close(c) == "closed"

\* One pass of the while loop, up to the sleep
SaveAttempt ==
  /\ pc = "db_loop"
  /\ SaveLoopCond
  /\ attempt' = attempt + 1
  /\ \E old \in BOOLEAN, ensured \in BOOLEAN, r \in CreateResults :
       LET \* django_db.close_old_connections()
           c1 == IF conn = "open" /\ old THEN "closed" ELSE conn
           \* connection.ensure_connection(), connection.close() when it raises
           c2 == IF c1 = "closed" /\ ensured THEN "open" ELSE c1
           h == Handler(SaveHandlers, r)
       IN /\ outcomes' = Append(outcomes, r)
          /\ IF r = "ok"
             THEN /\ store' = DemandData_create(store)
                  /\ conn' = "open"
                  /\ saved' = TRUE
                  /\ savedReports' = savedReports + 1
                  /\ pc' = "db_loop"
             ELSE /\ UNCHANGED << store, saved, savedReports >>
                  /\ IF h = 1
                     THEN \* connection.close(); break on the last attempt, else sleep
                          /\ conn' = connection_close(c2)
                          /\ pc' = IF attempt' >= max_attempts THEN "countdown" ELSE "db_backoff"
                     ELSE IF h = 2
                     THEN \* connection.close(); break
                          /\ conn' = connection_close(c2)
                          /\ pc' = "countdown"
                     ELSE /\ conn' = c2
                          /\ pc' = LoopExit(r)
  /\ UNCHANGED << sleeps, writerRuns >>
  /\ UNCHANGED << captureVars, shotVars, loopVars, params, requests >>
  /\ UNCHANGED << api_status, browser, releases, closeResult, fault >>

backoff_Linear(n) == 2 * n

\* backoff = 2 ** attempt
backoff(n) == 2 ^ n

\* time.sleep(backoff); continue
Backoff ==
  /\ pc = "db_backoff"
  /\ sleeps' = Append(sleeps, backoff(attempt))
  /\ pc' = "db_loop"
  /\ UNCHANGED << attempt, saved, conn, store, outcomes, savedReports, writerRuns >>
  /\ UNCHANGED << captureVars, shotVars, loopVars, params, requests >>
  /\ UNCHANGED << api_status, browser, releases, closeResult, fault >>

\* The condition of the while loop is false
SaveLoopEnd ==
  /\ pc = "db_loop"
  /\ ~SaveLoopCond
  /\ pc' = "countdown"
  /\ UNCHANGED << writerVars, captureVars, shotVars, loopVars, params, requests >>
  /\ UNCHANGED << api_status, browser, releases, closeResult, fault >>

(***************************************************************************)
(* The countdown between two cycles, and the interrupt                     *)
(***************************************************************************)
Countdown_OneSecond ==
  /\ pc = "countdown"
  /\ slept' = 1
  /\ pc' = "start"
  /\ UNCHANGED << cycle, run_date, interrupted, storeAtStart, response >>
  /\ UNCHANGED << writerVars, captureVars, shotVars, params, requests >>
  /\ UNCHANGED << api_status, browser, releases, closeResult, fault >>

\* for i in range(WAIT_TIME_SECONDS, 0, -1): time.sleep(1)
Countdown ==
  /\ pc = "countdown"
  /\ slept' = WAIT_TIME_SECONDS
  /\ pc' = "start"
  /\ UNCHANGED << cycle, run_date, interrupted, storeAtStart, response >>
  /\ UNCHANGED << writerVars, captureVars, shotVars, params, requests >>
  /\ UNCHANGED << api_status, browser, releases, closeResult, fault >>

\* KeyboardInterrupt raised where the command stands
Interrupt ==
  /\ pc \notin {"stopped", "crashed"}
  /\ interrupted' = TRUE
  /\ IF pc \in {"screenshot", "prune"}
     THEN ScreenshotRaise("KeyboardInterrupt")
     ELSE IF pc \in Block1Pcs
     THEN Block1Raise("KeyboardInterrupt", browser)
     ELSE /\ pc' = LoopExit("KeyboardInterrupt")
          /\ UNCHANGED << api_status, browser, releases, fault >>
  /\ UNCHANGED << cycle, run_date, slept, storeAtStart, response >>
  /\ UNCHANGED << writerVars, captureVars, shotVars, params, requests, closeResult >>

Next ==
  \/ StartCycle
  \/ Launch
  \/ Goto
  \/ WaitVisible
  \/ ReadCurrent
  \/ ReadYesterday
  \/ ReadFull
  \/ Parse
  \/ Screenshot
  \/ Prune
  \/ Close
  \/ Publish
  \/ SaveGuard
  \/ SaveAttempt
  \/ Backoff
  \/ SaveLoopEnd
  \/ Countdown
  \/ Interrupt

Spec == Init /\ [][Next]_vars

\* Demand texts as the page shows them: with and without separators, with
\* blanks and a line break around them
DemandTexts ==
  { <<"1", "2", ",", "3", "4", "5", " ", "M", "W">>,
    <<"1", "1", ",", "0", "0", "0", " ", "M", "W">>,
    <<" ", "9", ",", "8", "7", "6", " ", "M", "W", "\n">>,
    <<"1", ",", "2", "3", "4", ",", "5", "6", "7", " ", "M", "W">>,
    <<"8", "5", "0">> }

TimeBlocks ==
  { <<"1", "0", ":", "1", "5", " ", "-", " ", "1", "0", ":", "3", "0">>,
    <<"2", "3", ":", "4", "5", " ", "-", " ", "0", "0", ":", "0", "0">> }

DateTexts ==
  { <<"0", "5", " ", "J", "A", "N", " ", "2", "0", "2", "4">>,
    <<"2", "9", " ", "F", "E", "B", " ", "2", "0", "2", "4">>,
    <<"3", "1", " ", "D", "E", "C", " ", "1", "9", "9", "9">> }

\* The command before Block 2 of its first cycle, after a capture that read
\* c, y and t from the page and went through without an error
Captured(c, y, t) ==
  /\ pc = "publish"
  /\ cycle = 1
  /\ run_date = StartDate
  /\ api_status = "DataCaptured"
  /\ current_text = c
  /\ yesterday_text = y
  /\ full_text = JoinSplit(t)
  /\ parsed_time_block = Group1(JoinSplit(t), Search(JoinSplit(t)))
  /\ parsed_date_obj = Strptime(Group2(JoinSplit(t), Search(JoinSplit(t))))
  /\ browser = "closed"
  /\ files = (InitialFiles \cup {ScreenshotName(Strftime(StartDate))})
               \ stale_files(InitialFiles, StartDate)
  /\ params = NoParams
  /\ attempt = 0
  /\ saved = FALSE
  /\ conn = "closed"
  /\ store = <<>>
  /\ releases = 1
  /\ shotResult = "ok"
  /\ pruneResult = "ok"
  /\ removeFailed = {}
  /\ closeResult = "ok"
  /\ fault = NoFault
  /\ requests = <<>>
  /\ outcomes = <<>>
  /\ sleeps = <<>>
  /\ savedReports = 0
  /\ writerRuns = 0
  /\ slept = 0
  /\ interrupted = FALSE
  /\ storeAtStart = <<>>
  /\ response = NoResponse

PublishInit ==
  \E c \in DemandTexts, y \in DemandTexts, tb \in TimeBlocks, d \in DateTexts :
    Captured(c, y, <<"\n">> \o LIT_TIME_BLOCK \o tb \o LIT_DATED \o d)

\* Block 2 on its own, over the captured values a page can give
PublishSpec == PublishInit /\ [][Publish]_vars

(***************************************************************************)
(* views.py: latest_data_json                                              *)
(***************************************************************************)
WINDOW == 48

\* try of one record: except (ValueError, TypeError)
ViewHandlers == << {"ValueError", "TypeError"} >>

\* int(text) of a text without surrounding blanks: an optional sign and digits
IsIntText(text) ==
  /\ Len(text) > 0
  /\ LET body == IF text[1] \in {"+", "-"} THEN Tail(text) ELSE text
     IN Len(body) > 0 /\ \A i \in 1..Len(body) : body[i] \in Digits

RECURSIVE DigitsValue(_)
DigitsValue(body) ==
  IF body = <<>> THEN 0
  ELSE 10 * DigitsValue(SubSeq(body, 1, Len(body) - 1)) + DigitVal(body[Len(body)])

IntOf(text) ==
  IF text[1] = "-" THEN 0 - DigitsValue(Tail(text))
  ELSE IF text[1] = "+" THEN DigitsValue(Tail(text))
  ELSE DigitsValue(text)

\* str(value).replace(',', '').replace('MW', '').strip()
CleanForChart(text) ==
  LET commaFree == { Remove(text, <<",">>) }
      unitFree == { Remove(s, <<"M", "W">>) : s \in commaFree }
  IN CHOOSE s \in { Strip(t) : t \in unitFree } : TRUE

\* What one of the two "if item.<field>:" statements appends, or that its
\* int() raises ValueError
DemandEntry(text) ==
  IF text = <<>> THEN [raised |-> FALSE, value |-> 0]
  ELSE LET cleaned_str == CleanForChart(text)
       IN IF cleaned_str = <<>> \/ cleaned_str = <<"-">> THEN [raised |-> FALSE, value |-> 0]
          ELSE IF IsIntText(cleaned_str) THEN [raised |-> FALSE, value |-> IntOf(cleaned_str)]
          ELSE [raised |-> TRUE, value |-> 0]

\* The try statement of one record: what it appends to current_demand_data
\* and to yesterday_demand_data.  The append for current_demand comes before
\* the int() of yesterday_demand; the except clause appends 0 to both lists.
ItemEntries(item) ==
  LET cur == DemandEntry(item.current_demand)
      yes == DemandEntry(item.yesterday_demand)
  IN IF cur.raised THEN [current |-> <<0>>, yesterday |-> <<0>>, raised |-> TRUE]
     ELSE IF yes.raised THEN [current |-> <<cur.value, 0>>, yesterday |-> <<0>>, raised |-> TRUE]
     ELSE [current |-> <<cur.value>>, yesterday |-> <<yes.value>>, raised |-> FALSE]

\* captured_at counts the seconds since the start of StartDate
RECURSIVE PlusDays(_, _)
PlusDays(dt, n) == IF n = 0 THEN dt ELSE PlusDays(NextDay(dt), n - 1)

\* strftime('%H:%M')
HourMinute(t) == TwoDigits((t \div 3600) % 24) \o <<":">> \o TwoDigits((t \div 60) % 60)

MonthFullNames ==
  << <<"J", "a", "n", "u", "a", "r", "y">>,
     <<"F", "e", "b", "r", "u", "a", "r", "y">>,
     <<"M", "a", "r", "c", "h">>,
     <<"A", "p", "r", "i", "l">>,
     <<"M", "a", "y">>,
     <<"J", "u", "n", "e">>,
     <<"J", "u", "l", "y">>,
     <<"A", "u", "g", "u", "s", "t">>,
     <<"S", "e", "p", "t", "e", "m", "b", "e", "r">>,
     <<"O", "c", "t", "o", "b", "e", "r">>,
     <<"N", "o", "v", "e", "m", "b", "e", "r">>,
     <<"D", "e", "c", "e", "m", "b", "e", "r">> >>

\* strftime('%B %d, %Y')
LongDate(dt) ==
  MonthFullNames[dt.m] \o <<" ">> \o TwoDigits(dt.d) \o <<",", " ">> \o FourDigits(dt.y)

\* strftime('%B %d, %Y, %I:%M %p')
LongDateTime(t) ==
  LET hour == (t \div 3600) % 24
      hour12 == IF hour % 12 = 0 THEN 12 ELSE hour % 12
  IN LongDate(PlusDays(StartDate, t \div 86400)) \o <<",", " ">>
     \o TwoDigits(hour12) \o <<":">> \o TwoDigits((t \div 60) % 60)
     \o <<" ">> \o (IF hour < 12 THEN <<"A", "M">> ELSE <<"P", "M">>)

\* DemandData.objects.order_by('-captured_at')[:48], then list(...)[::-1]:
\* the rows are stored in the order of captured_at
recent_data(rows) ==
  IF Len(rows) <= WINDOW THEN rows ELSE SubSeq(rows, Len(rows) - WINDOW + 1, Len(rows))

\* The lists of parts, appended one after the other
RECURSIVE Flatten(_, _)
Flatten(parts, n) == IF n = 0 THEN <<>> ELSE Flatten(parts, n - 1) \o parts[n]

\* for i in range(len(recent_data)): the four lists after the loop.  Every
\* pass appends one label, what its try statement appends to the two demand
\* lists and, from the second record on, one interval after the leading 0.
ChartData(recent) ==
  LET n == Len(recent)
      entries == [i \in 1..n |-> ItemEntries(recent[i])]
  IN [labels |->
        [i \in 1..n |->
           IF recent[i].time_block # None_text /\ recent[i].time_block # <<>>
           THEN recent[i].time_block ELSE HourMinute(recent[i].captured_at)],
      current_demand |-> Flatten([i \in 1..n |-> entries[i].current], n),
      yesterday_demand |-> Flatten([i \in 1..n |-> entries[i].yesterday], n),
      capture_interval |->
        [i \in 1..n |->
           IF i = 1 THEN 0 ELSE recent[i].captured_at - recent[i - 1].captured_at]]

\* Whether some record's int() raises an exception no except clause catches
ChartRaises(recent) ==
  \E n \in 1..Len(recent) :
    ItemEntries(recent[n]).raised /\ Handler(ViewHandlers, "ValueError") = 0

\* The JsonResponse of latest_data_json for the rows of the table; status
\* 500 is what Django answers when the view raises
view_response(rows) ==
  LET recent == recent_data(rows)
      latest_data_point == rows[Len(rows)]
  IN IF recent = <<>> THEN [status |-> 404]
     ELSE IF ChartRaises(recent) \/ latest_data_point.date = None_date THEN [status |-> 500]
     ELSE [status |-> 200,
           latest_data_card |->
             [date |-> LongDate(latest_data_point.date),
              time_block |-> latest_data_point.time_block,
              current_demand |-> latest_data_point.current_demand,
              yesterday_demand |-> latest_data_point.yesterday_demand,
              captured_at |-> LongDateTime(latest_data_point.captured_at)],
           chart_data |-> ChartData(recent)]

latest_data_json ==
  /\ response = NoResponse
  /\ response' = view_response(store)
  /\ UNCHANGED << pc, api_status, browser, releases, closeResult, fault, params, requests >>
  /\ UNCHANGED << cycle, run_date, slept, interrupted, storeAtStart >>
  /\ UNCHANGED << captureVars, writerVars, shotVars >>

\* Demand texts of stored rows: the two texts of a record, as captured
RowTexts ==
  { << <<"1", "2", ",", "3", "4", "5", " ", "M", "W">>, <<"1", "1", ",", "0", "0", "0", " ", "M", "W">> >>,
    << <<"1", "2", ",", "3", "4", "5", " ", "M", "W">>, <<"N", "/", "A">> >>,
    << <<"N", "/", "A">>, <<"1", "1", ",", "0", "0", "0", " ", "M", "W">> >>,
    << <<"1", "2", ".", "5", " ", "M", "W">>, <<" ", "9", ",", "8", "7", "6", " ", "M", "W", "\n">> >>,
    << <<>>, <<"-">> >> }

MaxRows == 3

\* The row the writer stores for the texts pair, captured at second t
StoredRow(pair, t) ==
  [current_demand |-> pair[1],
   yesterday_demand |-> pair[2],
   time_block |-> <<"1", "0", ":", "1", "5", " ", "-", " ", "1", "0", ":", "3", "0">>,
   date |-> StartDate,
   captured_at |-> t]

\* Tables of up to MaxRows rows, one capture every WAIT_TIME_SECONDS, and
\* one table longer than the window
StoredTables ==
  { [i \in DOMAIN f |-> StoredRow(f[i], WAIT_TIME_SECONDS * i)] :
      f \in UNION { [1..k -> RowTexts] : k \in 0..MaxRows } }
  \cup { [i \in 1..(WINDOW + 2) |-> StoredRow(<< <<"1", "2", ",", "3", "4", "5", " ", "M", "W">>, <<"1", "1", ",", "0", "0", "0", " ", "M", "W">> >>, WAIT_TIME_SECONDS * i)] }

ViewInit == \E rows \in StoredTables : InitWith(InitialFiles, rows)

\* The view on its own, over the tables the writer can have filled
ViewSpec == ViewInit /\ [][latest_data_json]_vars

\* The steps of the command itself: every step but the interrupt
Run ==
  \/ StartCycle
  \/ Launch
  \/ Goto
  \/ WaitVisible
  \/ ReadCurrent
  \/ ReadYesterday
  \/ ReadFull
  \/ Parse
  \/ Screenshot
  \/ Prune
  \/ Close
  \/ Publish
  \/ SaveGuard
  \/ SaveAttempt
  \/ Backoff
  \/ SaveLoopEnd
  \/ Countdown

\* The command when no interrupt arrives and every call it makes returns or
\* raises: the single thread of handle() takes its next step
LiveSpec == InitWith(StaleFiles, <<>>) /\ [][Run]_vars /\ WF_vars(Run)

TypeOK ==
  /\ pc \in Block1Pcs \cup {"start", "publish", "db_guard", "db_loop", "db_backoff",
                            "countdown", "stopped", "crashed"}
  /\ cycle \in 0..MaxCycles
  /\ api_status \in {"UnknownError", "DataCaptured", "ParsingFailed", "TimeoutError", "ScrapingFailed"}
  /\ browser \in {"none", "open", "closed", "killed"}
  /\ attempt \in 0..max_attempts
  /\ saved \in BOOLEAN
  /\ conn \in {"closed", "open"}

(***************************************************************************)
(* Properties                                                              *)
(***************************************************************************)
\* Block 1 of the running cycle is over and the command has not been stopped
Handed == pc \in {"publish", "db_guard", "db_loop", "db_backoff", "countdown"}

\* Block 2 of the running cycle is over
Published == pc \in {"db_guard", "db_loop", "db_backoff", "countdown"}

\* The running cycle has gone through its three blocks
CycleDone == pc = "countdown" \/ (pc = "start" /\ cycle > 0)

FieldKeys == {"status", "date", "time", "current", "yesterday"}

ScreenshotFailures == {"PlaywrightTimeoutError", "PlaywrightError"}

\* C1 as stated: after any failure of the screenshot save, timeout included,
\* the status handed to the publisher and to the guard of the writer is
\* still DataCaptured.
C1_AnyScreenshotFailureKeepsStatus ==
  (Handed /\ shotResult \in ScreenshotFailures) => api_status = "DataCaptured"

\* C1 amended: a failure of the screenshot save other than a timeout leaves
\* the status DataCaptured, and when browser.close() then succeeds that is
\* the status handed on: the request carries the fields and the writer is
\* entered.  A timeout of the screenshot save sets the status TimeoutError:
\* the request carries the status only and no create is attempted.
C1_ScreenshotFailureStatus ==
  /\ (pc = "close" /\ shotResult = "PlaywrightError") => api_status = "DataCaptured"
  /\ (Handed /\ shotResult = "PlaywrightError" /\ closeResult = "ok") =>
       /\ api_status = "DataCaptured"
       /\ Published => DOMAIN params = FieldKeys
       /\ pc = "countdown" => (writerRuns = 1 /\ outcomes # <<>>)
  /\ (pc = "close" /\ shotResult = "PlaywrightTimeoutError") => api_status = "TimeoutError"
  /\ (Handed /\ shotResult = "PlaywrightTimeoutError" /\ closeResult = "ok") =>
       /\ api_status = "TimeoutError"
       /\ Published => DOMAIN params = {"status"}
       /\ writerRuns = 0 /\ outcomes = <<>> /\ store = storeAtStart

C1_Witness ==
  /\ pc = "countdown"
  /\ shotResult = "PlaywrightError"
  /\ closeResult = "ok"
  /\ saved
  /\ Len(store) = Len(storeAtStart) + 1

\* C2 as stated: after a create that failed with an application-level store
\* error (IntegrityError) no further create is attempted and no backoff
\* sleep is taken.
C2_NoRetryAfterApplicationError ==
  \A n \in 1..Len(outcomes) :
    outcomes[n] = "IntegrityError" =>
      /\ Len(outcomes) = n
      /\ Len(sleeps) < n
      /\ pc # "db_backoff"

\* C3: in a cycle that launched a browser, the browser has been released
\* exactly once when the cycle reaches the publisher, whichever way Block 1
\* was left, and it is never released twice.
C3_SessionReleasedOnce ==
  /\ releases <= 1
  /\ browser = "open" => (pc \in Block1Pcs /\ releases = 0)
  /\ (Handed /\ browser # "none") => (releases = 1 /\ browser \in {"closed", "killed"})
  /\ (Handed /\ browser = "none") => releases = 0

C3_Witness ==
  /\ pc = "publish"
  /\ browser = "killed"
  /\ releases = 1
  /\ api_status = "TimeoutError"
  /\ current_text # None_text
  /\ closeResult = "none"

\* C4: no failure of the capture, publish or save stage leaves its stage:
\* the command is never killed by an exception, and it stops only after a
\* KeyboardInterrupt.
C4_OnlyInterruptStops ==
  /\ pc # "crashed"
  /\ pc = "stopped" => interrupted

C4_Witness ==
  /\ pc = "start"
  /\ cycle > 0
  /\ ~interrupted
  /\ slept = WAIT_TIME_SECONDS
  /\ shotResult = "PlaywrightError"
  /\ pruneResult = "none"
  /\ requests = << [raised |-> "ConnectionError", status_code |-> 0] >>
  /\ outcomes = << "OperationalError", "IntegrityError", "OperationalError", "ValueError" >>

AllStoreLevel == \A n \in 1..Len(outcomes) : outcomes[n] \in {"ok", "OperationalError"}

Succeeded == \E n \in 1..Len(outcomes) : outcomes[n] = "ok"

\* C5: when every failed create failed with a store-level error
\* (OperationalError), there are never more than 4 creates in a cycle, none
\* after a successful one, success is reported once, and a writer that has
\* finished made min(index of the first success, 4) creates.
C5_AttemptsBounded ==
  AllStoreLevel =>
    /\ Len(outcomes) <= 4
    /\ \A n \in 1..(Len(outcomes) - 1) : outcomes[n] # "ok"
    /\ savedReports = (IF Succeeded THEN 1 ELSE 0)
    /\ (CycleDone /\ writerRuns = 1) =>
         (IF Succeeded
          THEN outcomes[Len(outcomes)] = "ok"
          ELSE Len(outcomes) = 4)

C5_Witness ==
  /\ pc = "countdown"
  /\ outcomes = << "OperationalError", "OperationalError", "OperationalError", "OperationalError" >>
  /\ ~saved
  /\ savedReports = 0
  /\ store = storeAtStart

\* C6: the i-th backoff sleep of a cycle lasts 2^i and follows the failed
\* create i; a finished writer has slept once less than it has attempted:
\* three failures and a success give the sleeps 2, 4, 8, and four failures
\* give three sleeps, none after the fourth.
C6_BackoffSleeps ==
  /\ \A i \in 1..Len(sleeps) : sleeps[i] = 2 ^ i /\ i <= Len(outcomes) /\ outcomes[i] # "ok"
  /\ pc = "db_backoff" => Len(sleeps) = Len(outcomes) - 1
  /\ (CycleDone /\ writerRuns = 1) => Len(sleeps) = Len(outcomes) - 1
  /\ (CycleDone /\ outcomes = << "OperationalError", "OperationalError", "OperationalError", "ok" >>)
       => (sleeps = << 2, 4, 8 >> /\ savedReports = 1)
  /\ (CycleDone /\ Len(outcomes) = 4 /\ ~Succeeded) => sleeps = << 2, 4, 8 >>

C6_Witness ==
  /\ pc = "countdown"
  /\ outcomes = << "OperationalError", "OperationalError", "OperationalError", "ok" >>
  /\ sleeps = << 2, 4, 8 >>
  /\ saved

\* C7: Block 3 is entered at most once in a cycle, and while the status of
\* the cycle is not DataCaptured it has not been entered, no create has
\* been attempted and the table is as it was when the cycle started.
C7_WriterOnlyWhenCaptured ==
  /\ writerRuns <= 1
  /\ api_status # "DataCaptured" =>
       /\ writerRuns = 0
       /\ outcomes = <<>>
       /\ store = storeAtStart

C7_Witness ==
  /\ pc = "countdown"
  /\ api_status = "ParsingFailed"
  /\ Len(requests) = 1
  /\ store # <<>>
  /\ store = storeAtStart

\* C8: a cycle never sends a second request, a cycle that has left Block 2
\* has sent exactly one, whatever its status and whatever became of the
\* request, and no failure of the request kills the command.
C8_OneRequestPerCycle ==
  /\ Len(requests) <= 1
  /\ (Published \/ CycleDone) => Len(requests) = 1
  /\ pc \in Block1Pcs \cup {"publish"} => requests = <<>>
  /\ pc # "crashed"

C8_Witness ==
  /\ pc = "countdown"
  /\ api_status = "ScrapingFailed"
  /\ requests = << [raised |-> "Timeout", status_code |-> 0] >>

\* C9: the parameters of a request that has been sent contain status, which
\* is the status of the cycle; they are exactly the five keys when the
\* status is DataCaptured and exactly {status} otherwise.
C9_ParamKeys ==
  requests # <<>> =>
    /\ "status" \in DOMAIN params
    /\ params.status = api_status
    /\ DOMAIN params = (IF api_status = "DataCaptured" THEN FieldKeys ELSE {"status"})

C9_Witness ==
  /\ requests # <<>>
  /\ shotResult = "PlaywrightTimeoutError"
  /\ parsed_date_obj # None_date
  /\ api_status = "TimeoutError"
  /\ DOMAIN params = {"status"}

\* C10: a create is attempted only after the request of the cycle has been
\* sent, and a DataCaptured cycle whose Block 3 is over has attempted one,
\* also when the request timed out, could not connect or was answered with
\* a status other than 200.
C10_SaveFollowsPublish ==
  /\ (writerRuns > 0 \/ outcomes # <<>>) => Len(requests) = 1
  /\ (CycleDone /\ api_status = "DataCaptured") => (writerRuns = 1 /\ outcomes # <<>>)
  /\ (pc = "db_guard" /\ api_status = "DataCaptured") => ENABLED SaveGuard

C10_Witness ==
  /\ pc = "countdown"
  /\ api_status = "DataCaptured"
  /\ requests = << [raised |-> "none", status_code |-> 500] >>
  /\ outcomes = << "ok" >>
  /\ saved

FinalStatuses == {"DataCaptured", "ParsingFailed", "TimeoutError", "ScrapingFailed"}

\* The steps of Block 1 before the parsing
FetchSteps == {"goto", "wait_visible", "read_current", "read_yesterday", "read_full"}

\* The time-block text was read and did not give a time block and a date
ParseFailed ==
  /\ full_text # None_text
  /\ Search(full_text) = 0 \/ parsed_date_obj = None_date

\* C11 as stated: a cycle is handed on with one of the four statuses; a
\* timeout in navigation, the visibility wait or a text read gives
\* TimeoutError, another exception of the renderer ScrapingFailed, a text
\* that does not parse ParsingFailed; after any of these failures no
\* screenshot was saved and nothing was pruned.
C11_StatusClassification ==
  Handed =>
    /\ api_status \in FinalStatuses
    /\ (fault.at \in FetchSteps /\ fault.exc = "PlaywrightTimeoutError") => api_status = "TimeoutError"
    /\ fault.exc = "PlaywrightError" => api_status = "ScrapingFailed"
    /\ ParseFailed => api_status = "ParsingFailed"
    /\ (fault.at \in FetchSteps \/ ParseFailed) => (shotResult = "none" /\ pruneResult = "none")

\* C11 amended: as stated, except that a text that does not parse gives
\* ParsingFailed only when browser.close() then returns; an exception of
\* browser.close() is classified like the others, TimeoutError for a
\* timeout and ScrapingFailed otherwise, and replaces the status.
C11_StatusClassificationUnlessCloseFails ==
  Handed =>
    /\ api_status \in FinalStatuses
    /\ fault.exc = "PlaywrightTimeoutError" => api_status = "TimeoutError"
    /\ fault.exc = "PlaywrightError" => api_status = "ScrapingFailed"
    /\ (ParseFailed /\ closeResult = "ok") => (api_status = "ParsingFailed" /\ fault = NoFault)
    /\ (ParseFailed /\ closeResult # "ok") => (fault.at = "close" /\ fault.exc = closeResult)
    /\ fault = NoFault => api_status \in {"DataCaptured", "ParsingFailed", "TimeoutError"}
    /\ (fault.at \in FetchSteps \/ ParseFailed) => (shotResult = "none" /\ pruneResult = "none")

C11_Witness ==
  /\ pc = "countdown"
  /\ ParseFailed
  /\ parsed_time_block # None_text
  /\ closeResult = "ok"
  /\ api_status = "ParsingFailed"
  /\ shotResult = "none"

\* C12 as stated: the time block and the date are both present or both
\* absent, and a text that does not match, or whose date does not parse,
\* gives ParsingFailed with neither of them.
C12_FieldsBothOrNeither ==
  /\ (parsed_time_block = None_text) <=> (parsed_date_obj = None_date)
  /\ (pc = "close" /\ ParseFailed) =>
       /\ api_status = "ParsingFailed"
       /\ parsed_time_block = None_text
       /\ parsed_date_obj = None_date

\* The naming convention <prefix>_<YYYY-MM-DD>.png of the artifact directory
MatchesConvention(fname) ==
  /\ Len(fname) = Len(SCREENSHOT_PREFIX) + 10 + Len(PNG)
  /\ StartsWith(fname, SCREENSHOT_PREFIX)
  /\ EndsWith(fname, PNG)
  /\ \A i \in 1..10 :
       LET c == fname[Len(SCREENSHOT_PREFIX) + i]
       IN IF i \in {5, 8} THEN c = "-" ELSE c \in Digits

ConventionFiles == { fname \in files : MatchesConvention(fname) }

\* C13 (as stated): after any pruning pass, those with a failed deletion
\* included, the directory holds at most KEEP_DAYS files that match the
\* naming convention.
C13_AtMostKeepDaysAfterAnyPass ==
  pruneResult \in {"ok", "partial"} => Cardinality(ConventionFiles) <= KEEP_DAYS

\* C13 (amended): after a pruning pass in which no deletion failed, the
\* directory holds at most KEEP_DAYS files that match the naming
\* convention, and each of them is in the keep-set of the run date.
C13_AtMostKeepDaysAfterCleanPass ==
  pruneResult = "ok" =>
    /\ Cardinality(ConventionFiles) <= KEEP_DAYS
    /\ ConventionFiles \subseteq
         { ScreenshotName(Strftime(run_date)), ScreenshotName(Strftime(PrevDay(run_date))) }

C13_Witness ==
  /\ pruneResult = "ok"
  /\ Cardinality(ConventionFiles) = KEEP_DAYS
  /\ \E fname \in InitialFiles : MatchesConvention(fname) /\ fname \notin files

\* The keep-set of C14 for run date D and keepDays = 2: the names for D and
\* the preceding calendar day
KeepSet(D) == { ScreenshotName(Strftime(D)), ScreenshotName(Strftime(PrevDay(D))) }

\* C14 (as stated): pruning computes a keep-set of exactly KEEP_DAYS
\* filenames, for the run date and the preceding days; when no deletion
\* fails it deletes every file matching the convention outside the keep-set;
\* it never deletes a file of the keep-set nor a file that does not match
\* the convention.
C14_PruneDeletesExactlyStale ==
  [][pc = "prune" =>
       /\ allowed_filenames(run_date) = KeepSet(run_date)
       /\ Cardinality(allowed_filenames(run_date)) = KEEP_DAYS
       /\ pruneResult' = "ok" =>
            \A fname \in files :
              (MatchesConvention(fname) /\ fname \notin KeepSet(run_date)) => fname \notin files'
       /\ \A fname \in files \ files' :
            fname \notin KeepSet(run_date) /\ MatchesConvention(fname)]_vars

\* C14 (amended): as above, except that the files pruning may delete are
\* those whose name starts with the prefix and ends in ".png" in any letter
\* case: it never deletes a file of the keep-set nor a file whose name lacks
\* the prefix or that ending.
C14_PruneDeletesPrefixedPngOutsideKeepSet ==
  [][pc = "prune" =>
       /\ allowed_filenames(run_date) = KeepSet(run_date)
       /\ Cardinality(allowed_filenames(run_date)) = KEEP_DAYS
       /\ pruneResult' = "ok" =>
            \A fname \in files :
              (MatchesConvention(fname) /\ fname \notin KeepSet(run_date)) => fname \notin files'
       /\ ScreenshotName(Strftime(run_date)) \in files'
       /\ \A fname \in files \ files' :
            /\ fname \notin KeepSet(run_date)
            /\ StartsWith(fname, SCREENSHOT_PREFIX)
            /\ EndsWith(Lower(fname), PNG)]_vars

C14_Witness ==
  /\ pc = "close"
  /\ pruneResult = "ok"
  /\ ScreenshotName(Strftime(run_date)) \in files
  /\ \E fname \in InitialFiles : MatchesConvention(fname) /\ fname \notin files
  /\ \E fname \in InitialFiles : ~MatchesConvention(fname) /\ IsScreenshot(fname) /\ fname \notin files
  /\ \E fname \in InitialFiles : ~IsScreenshot(fname) /\ fname \in files

\* The writer of the running cycle has finished: it stored the record, used
\* up its attempts, or stopped on an error that is not store-level
WriterFinished ==
  \/ saved
  \/ attempt = max_attempts
  \/ Len(outcomes) > 0 /\ Handler(SaveHandlers, outcomes[Len(outcomes)]) = 2

\* C15: cycles are sequential and the loop makes progress.  When no
\* interrupt arrives the cycle counter only moves by one, from the top of
\* the loop; the top of the loop is only entered from the countdown, which
\* sleeps 300; the countdown is only entered with the capture released, the
\* publish stage passed and, for a DataCaptured cycle, the writer finished
\* with all its retries; and every started cycle is followed by the next.
C15_SequentialProgress ==
  /\ [][/\ cycle' # cycle => (pc = "start" /\ cycle' = cycle + 1)
        /\ pc' = "start" => (pc = "countdown" /\ slept' = 300)
        /\ (pc' = "countdown" /\ pc # "countdown") =>
             /\ browser' \in {"none", "closed", "killed"}
             /\ Len(requests') = 1 \/ BuildRaises
             /\ api_status' = "DataCaptured" => (writerRuns' = 1 /\ WriterFinished')]_vars
  /\ \A k \in 1..(MaxCycles - 1) : (cycle = k) ~> (pc = "start" /\ cycle = k /\ slept = 300)
  /\ \A k \in 1..(MaxCycles - 1) : (cycle = k) ~> (cycle = k + 1)

C15_Witness ==
  /\ cycle = MaxCycles
  /\ pc = "start"
  /\ slept = 300
  /\ api_status # "DataCaptured"
  /\ Len(store) > 0

\* C16: an interrupt, wherever the command stands, ends the loop without
\* flushing.  The step that takes the interrupt leaves the command stopped,
\* and neither that step nor any later one sends a request, attempts or
\* commits a record create, or starts a cycle.
C16_InterruptStopsWithoutFlush ==
  [][interrupted' =>
       /\ pc' = "stopped"
       /\ requests' = requests
       /\ outcomes' = outcomes
       /\ store' = store
       /\ writerRuns' = writerRuns
       /\ cycle' = cycle]_vars

\* Interrupted between two attempts of the writer, the record left unsaved
C16_Witness ==
  /\ interrupted
  /\ pc = "stopped"
  /\ api_status = "DataCaptured"
  /\ Len(requests) = 1
  /\ attempt \in 1..(max_attempts - 1)
  /\ ~saved
  /\ store = storeAtStart

NotComma(c) == c # ","

NotSpace(c) == c # " "

\* s without the whitespace before its first and after its last other character
Trimmed(s) ==
  LET solid == { i \in 1..Len(s) : s[i] \notin Whitespace }
  IN IF solid = {} THEN <<>>
     ELSE SubSeq(s, CHOOSE i \in solid : \A j \in solid : i <= j,
                    CHOOSE i \in solid : \A j \in solid : i >= j)

\* s without the unit suffix " MW"
WithoutUnit(s) ==
  IF EndsWith(s, <<" ", "M", "W">>) THEN SubSeq(s, 1, Len(s) - 3) ELSE s

\* The demand value the publisher is to send for the raw text
PublishedDemand(raw) == Trimmed(WithoutUnit(Trimmed(SelectSeq(raw, NotComma))))

\* The calendar date a text of the form YYYY-MM-DD names
DateOf(s) ==
  [y |-> 1000 * DigitVal(s[1]) + 100 * DigitVal(s[2]) + 10 * DigitVal(s[3]) + DigitVal(s[4]),
   m |-> 10 * DigitVal(s[6]) + DigitVal(s[7]),
   d |-> 10 * DigitVal(s[9]) + DigitVal(s[10])]

IsIsoDate(s) ==
  /\ Len(s) = 10
  /\ \A i \in 1..10 : IF i \in {5, 8} THEN s[i] = "-" ELSE s[i] \in Digits

\* C17: the values published for a DataCaptured cycle.  current and
\* yesterday are the raw texts without "," and without the unit suffix
\* " MW", trimmed; time is the time block without its spaces, of the form
\* HH:MM-HH:MM; date is the parsed date as YYYY-MM-DD; the example of the
\* claim gives 12345, 11000, 10:15-10:30 and 2024-01-05.
C17_PublishedValues ==
  (pc = "db_guard" /\ api_status = "DataCaptured") =>
    /\ params.status = "DataCaptured"
    /\ params.current = PublishedDemand(current_text)
    /\ params.yesterday = PublishedDemand(yesterday_text)
    /\ params.time = SelectSeq(parsed_time_block, NotSpace)
    /\ Len(params.time) = 11 /\ params.time[3] = ":" /\ params.time[6] = "-" /\ params.time[9] = ":"
    /\ IsIsoDate(params.date) /\ DateOf(params.date) = parsed_date_obj
    /\ ( /\ current_text = <<"1", "2", ",", "3", "4", "5", " ", "M", "W">>
         /\ yesterday_text = <<"1", "1", ",", "0", "0", "0", " ", "M", "W">>
         /\ parsed_time_block = <<"1", "0", ":", "1", "5", " ", "-", " ", "1", "0", ":", "3", "0">>
         /\ parsed_date_obj = [y |-> 2024, m |-> 1, d |-> 5] )
       => /\ params.current = <<"1", "2", "3", "4", "5">>
          /\ params.yesterday = <<"1", "1", "0", "0", "0">>
          /\ params.time = <<"1", "0", ":", "1", "5", "-", "1", "0", ":", "3", "0">>
          /\ params.date = <<"2", "0", "2", "4", "-", "0", "1", "-", "0", "5">>

C17_Witness ==
  /\ pc = "db_guard"
  /\ api_status = "DataCaptured"
  /\ Len(requests) = 1
  /\ current_text = <<"1", "2", ",", "3", "4", "5", " ", "M", "W">>
  /\ params.current = <<"1", "2", "3", "4", "5">>
  /\ params.date = <<"2", "0", "2", "4", "-", "0", "1", "-", "0", "5">>

\* C18: for every non-empty window of stored records, those with a demand
\* text that cannot be converted included, the four chart_data arrays are
\* parallel: each has one entry per record of the window, entry i describes
\* record i in oldest-to-newest order, and capture_interval[1] is 0.
C18_ChartArraysParallel ==
  (response # NoResponse /\ store # <<>>) =>
    /\ response.status = 200
    /\ LET window == recent_data(store)
           chart == response.chart_data
       IN /\ Len(chart.labels) = Len(window)
          /\ Len(chart.current_demand) = Len(window)
          /\ Len(chart.yesterday_demand) = Len(window)
          /\ Len(chart.capture_interval) = Len(window)
          /\ chart.capture_interval[1] = 0
          /\ \A i \in 1..Len(window) :
               /\ chart.labels[i] = window[i].time_block
               /\ i > 1 => chart.capture_interval[i]
                             = window[i].captured_at - window[i - 1].captured_at

\* C19: after every attempt of the writer that fails, with a store-level
\* error or another one, on the last attempt or an earlier one, the
\* connection is closed; it is closed while the writer sleeps before a retry
\* and when the next attempt begins, so that attempt opens its own.
C19_ConnectionInvalidated ==
  /\ [][(Len(outcomes') = Len(outcomes) + 1 /\ outcomes'[Len(outcomes')] # "ok")
          => conn' = "closed"]_vars
  /\ [][(Len(outcomes') = Len(outcomes) + 1 /\ Len(outcomes) > 0) => conn = "closed"]_vars
  /\ [](pc = "db_backoff" => conn = "closed")

\* A store-level failure, a retry, then an error that is not store-level
C19_Witness ==
  /\ pc = "countdown"
  /\ Len(outcomes) >= 2
  /\ Handler(SaveHandlers, outcomes[1]) = 1
  /\ Handler(SaveHandlers, outcomes[Len(outcomes)]) = 2
  /\ conn = "closed"

Extends(rows, before) ==
  Len(rows) >= Len(before) /\ SubSeq(rows, 1, Len(before)) = before

\* C21: the record store only grows and holds only complete records.  A
\* step never changes or removes a row; a cycle adds at most one row, one
\* when its status is DataCaptured and an attempt succeeded, none otherwise;
\* the row a step adds has its four fields present, and its demand texts
\* are the texts captured in the cycle, unchanged.
C21_StoreOnlyGrows ==
  /\ [][/\ Extends(store', store)
        /\ Len(store') <= Len(store) + 1
        /\ Len(store') = Len(store) + 1 =>
             LET row == store'[Len(store')]
             IN /\ api_status = "DataCaptured"
                /\ row.current_demand = current_text /\ row.current_demand # None_text
                /\ row.yesterday_demand = yesterday_text /\ row.yesterday_demand # None_text
                /\ row.time_block # None_text
                /\ row.date # None_date]_vars
  /\ [](/\ Extends(store, storeAtStart)
        /\ Len(store) <= Len(storeAtStart) + 1
        /\ pc = "countdown" =>
             Len(store) = Len(storeAtStart)
               + (IF api_status = "DataCaptured"
                     /\ \E i \in 1..Len(outcomes) : outcomes[i] = "ok"
                  THEN 1 ELSE 0)
        /\ \A i \in 1..Len(store) :
             /\ store[i].current_demand # None_text
             /\ store[i].yesterday_demand # None_text
             /\ store[i].time_block # None_text
             /\ store[i].date # None_date)

\* A cycle whose attempts all failed, after a cycle that stored its row
C21_Witness ==
  /\ pc = "countdown"
  /\ cycle >= 2
  /\ api_status = "DataCaptured"
  /\ Len(outcomes) = max_attempts
  /\ ~saved
  /\ Len(store) >= 1
  /\ store = storeAtStart

====
